---- MODULE Spec2Model ----
(***************************************************************************)
(* Model of src/src/ocr/tesseract.cpp: the Tesseract wrapper (constructor, *)
(* init, recognize, isValid, error) and the image preparation it runs      *)
(* before every recognition (convertImage, pixConvertRGBToGray, getScale,  *)
(* pixScale, pixDestroy).                                                  *)
(*                                                                         *)
(* A double is modelled as an exact rational <<n, d>> with d > 0, or as    *)
(* <<1, 0>> for +infinity (the result of dividing a positive double by     *)
(* zero).  An int is a 32-bit two's complement integer: products wrap.     *)
(***************************************************************************)
EXTENDS Integers, Sequences, FiniteSets, TLC

----------------------------------------------------------------------------
(* Bounds of the model *)

\* recognize is not called any more once this many buffers have leaked
MaxLeaked == 2

----------------------------------------------------------------------------
(* 32-bit int arithmetic *)

\* std::numeric_limits<int>::max()
IntMax == 2147483647

IntMin == (-IntMax) - 1

\* x + y on 32-bit ints, wrapping; no intermediate value leaves the 32-bit range
WrapAdd(x, y) ==
  IF x >= 0 /\ y >= 0 /\ x > IntMax - y
    THEN ((x - IntMax) - 1) + ((y - IntMax) - 1)
  ELSE IF x < 0 /\ y < 0 /\ x < IntMin - y
    THEN ((x + IntMax) + 1) + ((y + IntMax) + 1)
  ELSE x + y

\* x * y on 32-bit ints, wrapping (y >= 0), by doubling
RECURSIVE WrapMul(_, _)
WrapMul(x, y) ==
  IF y = 0 THEN 0
  ELSE LET half == WrapMul(x, y \div 2)
           dbl  == WrapAdd(half, half)
       IN IF y % 2 = 1 THEN WrapAdd(dbl, x) ELSE dbl

\* C++ integer division, truncating toward zero (k > 0)
TruncDiv(x, k) == IF x >= 0 THEN x \div k ELSE -((-x) \div k)

Abs(x) == IF x < 0 THEN -x ELSE x

IntMinOf(a, b) == IF b < a THEN b ELSE a

----------------------------------------------------------------------------
(* doubles as exact rationals *)

RECURSIVE GCD(_, _)
GCD(a, b) == IF b = 0 THEN a ELSE GCD(b, a % b)

Inf == <<1, 0>>

IsInf(a) == a[2] = 0

\* n / d in lowest terms, d > 0
Norm(n, d) == LET g == GCD(Abs(n), d) IN <<n \div g, d \div g>>

\* the double n / double(k) for ints n > 0 and k: +infinity when k = 0
IntOverInt(n, k) ==
  IF k = 0 THEN Inf
  ELSE IF k < 0 THEN Norm(-n, -k)
  ELSE Norm(n, k)

\* a / k for a finite double a > 0 and an int k: +infinity when k = 0
DivByInt(a, k) ==
  IF k = 0 THEN Inf
  ELSE LET g == GCD(a[1], Abs(k))
           n == a[1] \div g
           m == Abs(k) \div g
       IN <<IF k < 0 THEN -n ELSE n, a[2] * m>>

\* a < b on finite rationals, by comparing integer parts and then the
\* reciprocals of the fractional parts: no product is formed
RECURSIVE FinLess(_, _)
FinLess(a, b) ==
  LET qa == a[1] \div a[2]
      qb == b[1] \div b[2]
      ra == a[1] % a[2]
      rb == b[1] % b[2]
  IN IF qa # qb THEN qa < qb
     ELSE IF rb = 0 THEN FALSE
     ELSE IF ra = 0 THEN TRUE
     ELSE FinLess(<<b[2], rb>>, <<a[2], ra>>)

\* a < b on doubles
Less(a, b) ==
  IF IsInf(a) THEN FALSE
  ELSE IF IsInf(b) THEN TRUE
  ELSE FinLess(a, b)

\* std::min(a, b)
Min(a, b) == IF Less(b, a) THEN b ELSE a

\* std::max(a, b)
Max(a, b) == IF Less(a, b) THEN b ELSE a

One == <<1, 1>>

\* the "do not scale" value -1.0
Sentinel == <<-1, 1>>

\* (l_int32)(scale * n + 0.5) for a finite scale > 0 and an int n > 0
ScaledDim(scale, n) ==
  LET q == scale[1] \div scale[2]
      r == scale[1] % scale[2]
  IN (q * n) + (((2 * r * n) + scale[2]) \div (2 * scale[2]))

----------------------------------------------------------------------------
(* Pix buffers *)

\* a Pix: width, height, depth and resolution; NullPix stands for nullptr
NullPix == [w |-> 0, h |-> 0, d |-> 0, xRes |-> 0, yRes |-> 0]

\* the null Pix pointer, as a buffer id
NullId == 0

\* the captured images recognize is called with: size and density
Images ==
  { [w |-> 100,   h |-> 100,   xRes |-> 100, yRes |-> 100],
    [w |-> 100,   h |-> 80,    xRes |-> 0,   yRes |-> 100],
    [w |-> 100,   h |-> 100,   xRes |-> 500, yRes |-> 600],
    [w |-> 20000, h |-> 20000, xRes |-> 100, yRes |-> 100],
    [w |-> 32768, h |-> 16384, xRes |-> 100, yRes |-> 100] }

\* values getFreeMemory returns: -1 (GlobalMemoryStatusEx failed), and byte counts
FreeMemValues == {-1, 4096, 20480, 102400000}

\* the Pix pixReadMemBmp decodes from the BMP of a QImage: 32 bits per pixel
convertImage(image) ==
  [w |-> image.w, h |-> image.h, d |-> 32, xRes |-> image.xRes, yRes |-> image.yRes]

\* the Pix pixConvertRGBToGray makes: same size and resolution, 8 bits per pixel
pixConvertRGBToGray(pix) == [pix EXCEPT !.d = 8]

\* the Pix pixScale makes for a finite scale > 1.0 on both axes
pixScale(pix, scale) ==
  [w |-> ScaledDim(scale, pix.w), h |-> ScaledDim(scale, pix.h), d |-> pix.d,
   xRes |-> ScaledDim(scale, pix.xRes), yRes |-> ScaledDim(scale, pix.yRes)]

\* the address of a newly allocated buffer: one no live buffer has
Alloc(heap) ==
  CHOOSE i \in 1..(Cardinality(heap) + 1) :
    i \notin heap /\ \A j \in 1..(i - 1) : j \in heap

\* pixDestroy(&p): releases the buffer p points to
pixDestroy(heap, id) == heap \ {id}

----------------------------------------------------------------------------
(* getScale *)

\* getFreeMemory() * 0.95
AvailableMemory(freeMem) == Norm(freeMem * 19, 20)

\* source->w * source->h * source->d / 8, in 32-bit int arithmetic
ActualSize(source) ==
  TruncDiv(WrapMul(WrapMul(source.w, source.h), source.d), 8)

\* a density check that never fires
unknownDensity_never(xRes, yRes) == FALSE

\* xRes * yRes == 0, the product in 32-bit int arithmetic
unknownDensity(xRes, yRes) == WrapMul(xRes, yRes) = 0

\* a memory check against 0 instead of 1
memoryUnavailable_belowZero(availableMemory) == Less(availableMemory, <<0, 1>>)

\* availableMemory < 1
memoryUnavailable(availableMemory) == Less(availableMemory, One)

\* getScale(source) when getFreeMemory returns freeMem.  The two int products
\* (xRes * yRes, w * h * d) overflow for large operands.  Signed overflow is
\* undefined; the operands are not known at compile time, so a build computes
\* the products with the 32-bit multiply instruction, which wraps around, and
\* that is the one outcome modelled.
getScale(source, freeMem) ==
  IF source = NullPix THEN Sentinel
  ELSE
    LET xRes == source.xRes
        yRes == source.yRes
    IN IF unknownDensity(xRes, yRes) THEN Sentinel
       ELSE
         LET preferredScale == Max(IntOverInt(500, IntMinOf(xRes, yRes)), One)
         IN IF ~Less(One, preferredScale) THEN Sentinel
            ELSE
              LET maxScaleX == IntOverInt(IntMax, source.w)
                  scaleX == Min(preferredScale, maxScaleX)
                  maxScaleY == IntOverInt(IntMax, source.h)
                  scaleY == Min(preferredScale, maxScaleY)
                  scale == Min(scaleX, scaleY)
                  availableMemory == AvailableMemory(freeMem)
              IN IF memoryUnavailable(availableMemory) THEN Sentinel
                 ELSE
                   LET actualSize == ActualSize(source)
                       maxScaleMemory == DivByInt(availableMemory, actualSize)
                   IN Min(scale, maxScaleMemory)

----------------------------------------------------------------------------
(* prepareImage *)

\* scale > 1.0: prepareImage calls pixScale
scaleWanted(scale) == Less(One, scale)

\* a fallback that keeps the null result of pixScale
scaledOrSource_keepNull(made, scaleSource) == made

\* if (!scaled) scaled = scaleSource
scaledOrSource(made, scaleSource) == IF made = NullId THEN scaleSource ELSE made

\* One pass of prepareImage over image, starting from the live buffers heap.
\* convOk, grayOk, scaleOk: whether convertImage, pixConvertRGBToGray and
\* pixScale return a buffer; freeMem: what getFreeMemory returns.
\* ret is the returned pointer and geom the Pix it points to; created are the
\* buffers made during the pass; source, mem, scale are getScale's argument,
\* probe value and result when it was called; tried is whether pixScale was
\* called and scaledOk whether the returned buffer is the one pixScale made.
prepareImage(image, convOk, grayOk, freeMem, scaleOk, heap) ==
  LET pix == IF convOk THEN Alloc(heap) ELSE NullId
      heap1 == IF convOk THEN heap \cup {pix} ELSE heap
      none == [ret |-> NullId, geom |-> NullPix, heap |-> heap1,
               created |-> heap1 \ heap, called |-> FALSE, source |-> NullPix,
               mem |-> freeMem, scale |-> Sentinel, tried |-> FALSE,
               scaledOk |-> FALSE]
  IN IF pix = NullId THEN none
     ELSE
       LET gray == IF grayOk THEN Alloc(heap1) ELSE NullId
       IN IF gray = NullId THEN none
          ELSE
            LET heap2 == pixDestroy(heap1 \cup {gray}, pix)
                scaleSource == pixConvertRGBToGray(convertImage(image))
                scale == getScale(scaleSource, freeMem)
                tried == scaleWanted(scale)
                made == IF tried /\ scaleOk THEN Alloc(heap2) ELSE NullId
                scaled == IF tried THEN scaledOrSource(made, gray) ELSE gray
                heapS == IF made = NullId THEN heap2 ELSE heap2 \cup {made}
                heap3 == IF scaled # gray THEN pixDestroy(heapS, gray) ELSE heapS
            IN [ret |-> scaled,
                geom |-> IF scaled # gray THEN pixScale(scaleSource, scale)
                                          ELSE scaleSource,
                heap |-> heap3,
                created |-> {pix, gray} \cup (IF made = NullId THEN {} ELSE {made}),
                called |-> TRUE, source |-> scaleSource, mem |-> freeMem,
                scale |-> scale, tried |-> tried, scaledOk |-> scaled # gray]

----------------------------------------------------------------------------
(* Tesseract *)

VARIABLES
  pc,           \* where the object is: "new" before the constructor ran, "idle"
                \* between calls, else the point reached inside recognize
  engine_,      \* engine_ holds a TessBaseAPI (isValid())
  error_,       \* error()
  live,         \* the Pix buffers that are allocated and not released
  created,      \* the buffers the last prepareImage pass made
  image,        \* recognize's local image
  engineImage,  \* the buffer the engine was given by SetImage and still holds
  outText,      \* recognize's local outText, as a sequence of characters
  result,       \* the text the last recognize call returned
  ops,          \* the engine calls and the cleanup made by the last recognize call
  outcome,      \* how the last recognize call went
  constructed,  \* how the constructor went
  pass,         \* the last prepareImage pass (or the last getScale call)
  prev          \* the last pass before that which returned a buffer

vars == <<pc, engine_, error_, live, created, image, engineImage, outText,
          result, ops, outcome, constructed, pass, prev>>

InitFailed == "init failed"

RecognizeFailed == "Failed to recognize text or no text selected"

\* what GetUTF8Text returns; a null pointer and "" alike make an empty QString
Texts == { <<>>, <<" ">>, <<" ", "a", " ">> }

Languages == {"", "eng"}

TessdataPaths == {"", "tessdata"}

\* what TessBaseAPI::Init returns: 0 on success
InitResults == {0, -1}

RECURSIVE TrimLeft(_)
TrimLeft(t) == IF t # <<>> /\ Head(t) = " " THEN TrimLeft(Tail(t)) ELSE t

RECURSIVE TrimRight(_)
TrimRight(t) ==
  IF t # <<>> /\ t[Len(t)] = " " THEN TrimRight(SubSeq(t, 1, Len(t) - 1)) ELSE t

\* QString::trimmed
trimmed(t) == TrimRight(TrimLeft(t))

\* a pass that has not happened
NoPass == [image |-> NullPix, conv |-> FALSE, gray |-> FALSE, scaleOk |-> FALSE,
           called |-> FALSE, source |-> NullPix, mem |-> 0,
           scale |-> Sentinel, tried |-> FALSE, scaledOk |-> FALSE,
           geom |-> NullPix]

\* what is kept of a prepareImage pass over the image source: the inputs and
\* what prepareImage reports of the pass
PassOf(source, convOk, grayOk, scaleOk, p) ==
  [image |-> [w |-> source.w, h |-> source.h, d |-> 0,
              xRes |-> source.xRes, yRes |-> source.yRes],
   conv |-> convOk, gray |-> grayOk, scaleOk |-> scaleOk,
   called |-> p.called, source |-> p.source, mem |-> p.mem, scale |-> p.scale,
   tried |-> p.tried, scaledOk |-> p.scaledOk, geom |-> p.geom]

\* what is kept of a pass once another pass has followed it
NoPrev == [image |-> NullPix, mem |-> 0, geom |-> NullPix]

PrevOf(p) == [image |-> p.image, mem |-> p.mem, geom |-> p.geom]

\* an init that keeps the engine it failed to initialise
init_keepEngine(engine, error, initResult) ==
  IF engine THEN [engine_ |-> engine, error_ |-> error]
  ELSE IF initResult = 0 THEN [engine_ |-> TRUE, error_ |-> error]
  ELSE [engine_ |-> TRUE, error_ |-> InitFailed]

\* Tesseract::init: the engine and the error it leaves
init(engine, error, initResult) ==
  IF engine THEN [engine_ |-> engine, error_ |-> error]
  ELSE IF initResult = 0 THEN [engine_ |-> TRUE, error_ |-> error]
  ELSE [engine_ |-> FALSE, error_ |-> InitFailed]

\* Tesseract::Tesseract
Construct(language, tessdataPath, initResult) ==
  /\ pc = "new"
  /\ pc' = "idle"
  /\ IF tessdataPath = "" \/ language = ""
       THEN UNCHANGED <<engine_, error_>>
       ELSE LET r == init(engine_, error_, initResult)
            IN /\ engine_' = r.engine_
               /\ error_' = r.error_
  /\ constructed' = IF tessdataPath = "" \/ language = "" THEN "badArgs"
                    ELSE IF initResult = 0 THEN "inited"
                    ELSE "initFailed"
  /\ UNCHANGED <<live, created, image, engineImage, outText, result, ops,
                 outcome, pass, prev>>

\* Tesseract::isValid
isValid == engine_

\* an entry that clears the error before it checks the source
recognizeEntry_clearFirst(engine, sourceIsNull, error) ==
  IF ~engine THEN [outcome |-> "noEngine", error_ |-> error]
  ELSE IF sourceIsNull THEN [outcome |-> "nullSource", error_ |-> ""]
  ELSE [outcome |-> "prepare", error_ |-> ""]

\* the two SOFT_ASSERTs at the head of recognize and error_.clear():
\* whether the call goes on, and the error it leaves
recognizeEntry(engine, sourceIsNull, error) ==
  IF ~engine THEN [outcome |-> "noEngine", error_ |-> error]
  ELSE IF sourceIsNull THEN [outcome |-> "nullSource", error_ |-> error]
  ELSE [outcome |-> "prepare", error_ |-> ""]

\* Tesseract::recognize up to the return of prepareImage
RecognizeCall(sourceIsNull, source, convOk, grayOk, freeMem, scaleOk) ==
  /\ pc = "idle"
  /\ Cardinality(live) < MaxLeaked
  /\ LET e == recognizeEntry(engine_, sourceIsNull, error_)
     IN /\ error_' = e.error_
        /\ ops' = <<>>
        /\ IF e.outcome # "prepare"
             THEN /\ outcome' = e.outcome
                  /\ result' = <<>>
                  /\ UNCHANGED <<pc, live, created, image, pass, prev>>
             ELSE \E p \in {prepareImage(source, convOk, grayOk, freeMem,
                                        scaleOk, live)} :
                     /\ live' = p.heap
                     /\ created' = p.created
                     /\ pass' = PassOf(source, convOk, grayOk, scaleOk, p)
                     /\ prev' = IF pass.geom # NullPix THEN PrevOf(pass) ELSE prev
                     /\ image' = p.ret
                     /\ IF p.ret = NullId
                          THEN /\ outcome' = "noImage"
                               /\ result' = <<>>
                               /\ pc' = "idle"
                          ELSE /\ outcome' = "running"
                               /\ pc' = "prepared"
                               /\ UNCHANGED result
  /\ UNCHANGED <<engine_, engineImage, outText, constructed>>

\* engine_->SetImage(image)
SetImage ==
  /\ pc = "prepared"
  /\ pc' = "imageSet"
  /\ engineImage' = image
  /\ ops' = Append(ops, "SetImage")
  /\ UNCHANGED <<engine_, error_, live, created, image, outText, result,
                 outcome, constructed, pass, prev>>

\* engine_->GetUTF8Text()
GetUTF8Text(text) ==
  /\ pc = "imageSet"
  /\ pc' = "textRead"
  /\ outText' = text
  /\ ops' = Append(ops, "GetUTF8Text")
  /\ UNCHANGED <<engine_, error_, live, created, image, engineImage, result,
                 outcome, constructed, pass, prev>>

\* engine_->Clear()
Clear ==
  /\ pc = "textRead"
  /\ pc' = "cleared"
  /\ engineImage' = NullId
  /\ ops' = Append(ops, "Clear")
  /\ UNCHANGED <<engine_, error_, live, created, image, outText, result,
                 outcome, constructed, pass, prev>>

\* a cleanup that forgets the buffer without releasing it
cleanupImage_leak(heap, id) == [heap |-> heap, image |-> NullId]

\* cleanupImage(&image): the heap and the pointer it leaves
cleanupImage(heap, id) == [heap |-> pixDestroy(heap, id), image |-> NullId]

CleanupImage ==
  /\ pc = "cleared"
  /\ pc' = "cleaned"
  /\ LET c == cleanupImage(live, image)
     IN /\ live' = c.heap
        /\ image' = c.image
  /\ ops' = Append(ops, "cleanupImage")
  /\ UNCHANGED <<engine_, error_, created, engineImage, outText, result,
                 outcome, constructed, pass, prev>>

\* the end of recognize: trim, delete[] outText, set the error, return
RecognizeReturn ==
  /\ pc = "cleaned"
  /\ pc' = "idle"
  /\ LET text == trimmed(outText)
     IN /\ result' = text
        /\ error_' = IF text = <<>> THEN RecognizeFailed ELSE error_
  /\ outText' = <<>>
  /\ outcome' = "recognized"
  /\ UNCHANGED <<engine_, live, created, image, engineImage, ops, constructed,
                 pass, prev>>

\* One choice of the inputs a call does not read stands for all of them: a
\* null source has no image, a failed conversion is followed by no grayscale
\* conversion, and a failed grayscale conversion by no probe and no scaling.
Relevant(sourceIsNull, source, convOk, grayOk, freeMem, scaleOk) ==
  LET first == CHOOSE i \in Images : i.xRes = 0
  IN /\ sourceIsNull => (source = first /\ convOk)
     /\ ~convOk => grayOk
     /\ (sourceIsNull \/ ~convOk \/ ~grayOk) => (freeMem = -1 /\ scaleOk)

\* the inputs of a recognize call: whether the source pixmap is null, its
\* image, whether the two conversions succeed, the probe value and whether
\* pixScale succeeds
Calls ==
  { c \in BOOLEAN \X Images \X BOOLEAN \X BOOLEAN \X FreeMemValues \X BOOLEAN :
      Relevant(c[1], c[2], c[3], c[4], c[5], c[6]) }

Init ==
  /\ pc = "new"
  /\ engine_ = FALSE
  /\ error_ = ""
  /\ live = {}
  /\ created = {}
  /\ image = NullId
  /\ engineImage = NullId
  /\ outText = <<>>
  /\ result = <<>>
  /\ ops = <<>>
  /\ outcome = "none"
  /\ constructed = "no"
  /\ pass = NoPass
  /\ prev = NoPrev

Next ==
  \/ \E language \in Languages, tessdataPath \in TessdataPaths,
        initResult \in InitResults :
       Construct(language, tessdataPath, initResult)
  \/ \E c \in Calls : RecognizeCall(c[1], c[2], c[3], c[4], c[5], c[6])
  \/ SetImage
  \/ \E text \in Texts : GetUTF8Text(text)
  \/ Clear
  \/ CleanupImage
  \/ RecognizeReturn

Spec == Init /\ [][Next]_vars

----------------------------------------------------------------------------
(* getScale on its own: every buffer, every probe value *)

ScaleWidths == {1, 100, 20000, 32768}

ScaleHeights == {1, 100, 16384, 20000}

ScaleDepths == {1, 8, 32}

ScaleResolutions == {0, 72, 100, 499, 500, 600, 50000, 65536}

ScaleFreeMemValues == {-1, 0, 1, 20, 4096, 20480, 102400000}

ScaleSources ==
  {NullPix} \cup
  [w : ScaleWidths, h : ScaleHeights, d : ScaleDepths,
   xRes : ScaleResolutions, yRes : ScaleResolutions]

\* the arguments of a call of getScale that has not been made yet
ScaleArgsOf(source, freeMem) ==
  [NoPass EXCEPT !.source = source, !.mem = freeMem]

ScaleInit ==
  /\ pc = "scale"
  /\ engine_ = FALSE
  /\ error_ = ""
  /\ live = {}
  /\ created = {}
  /\ image = NullId
  /\ engineImage = NullId
  /\ outText = <<>>
  /\ result = <<>>
  /\ ops = <<>>
  /\ outcome = "none"
  /\ constructed = "no"
  /\ pass \in {ScaleArgsOf(source, freeMem) :
                 source \in ScaleSources, freeMem \in ScaleFreeMemValues}
  /\ prev = NoPrev

\* getScale(source) and the test prepareImage makes of its result
GetScaleCall ==
  /\ pc = "scale"
  /\ pc' = "scaled"
  /\ LET scale == getScale(pass.source, pass.mem)
     IN pass' = [pass EXCEPT !.called = TRUE, !.scale = scale,
                             !.tried = scaleWanted(scale)]
  /\ UNCHANGED <<engine_, error_, live, created, image, engineImage,
                 outText, result, ops, outcome, constructed, prev>>

ScaleNext == GetScaleCall

ScaleSpec == ScaleInit /\ [][ScaleNext]_vars

----------------------------------------------------------------------------
(* Properties *)

\* the last prepareImage pass returned a buffer
Returned(p) == p.geom # NullPix

\* the density of the image is unknown or needs no scaling
NoScalingDensity(i) ==
  \/ i.xRes = 0
  \/ i.yRes = 0
  \/ IntMinOf(i.xRes, i.yRes) >= 500

\* the mathematical product x * y of two positive ints exceeds IntMax
MulOverflows(x, y) == x > IntMax \div y

\* the mathematical product w * h * d of a Pix does not fit a 32-bit int
ProductOverflows(s) ==
  MulOverflows(s.w, s.h) \/ MulOverflows(s.w * s.h, s.d)

\* (w * s) * (h * s) * d / 8 <= availableMemory for the scale s applied to a
\* Pix g when the probe returned freeMem: equivalently
\* s * s <= 8 * availableMemory / d / w / h
ScaledFits(g, scale, freeMem) ==
  LET a == AvailableMemory(freeMem)
      room == DivByInt(DivByInt(DivByInt(<<8 * a[1], a[2]>>, g.d), g.w), g.h)
      square == <<scale[1] * scale[1], scale[2] * scale[2]>>
  IN ~Less(room, square)

\* C1: every buffer a prepareImage pass created, other than the one it
\* returned and recognize still holds, has been released
C1_IntermediatesReleased == (created \cap live) \subseteq {image}

\* C2: after a recognize call has returned, error() is non-empty exactly when
\* the call returned empty text
C2_ErrorIffEmptyText ==
  (pc = "idle" /\ outcome # "none") => ((error_ # "") <=> (result = <<>>))

\* C3 (as stated): a recognize call with a null source on a valid engine
\* returns empty text, makes no engine call and leaves the error field empty
C3_NullSourceLeavesNoError ==
  outcome = "nullSource" =>
    (result = <<>> /\ ops = <<>> /\ engineImage = NullId /\ error_ = "")

\* C3 (amended): a recognize call with a null source on a valid engine returns
\* empty text, makes no engine call and leaves the error field as it was
\* before the call
C3_NullSourceKeepsError ==
  [][(pc = "idle" /\ outcome' = "nullSource") =>
       (/\ pc' = "idle"
        /\ result' = <<>>
        /\ ops' = <<>>
        /\ engineImage' = NullId
        /\ error_' = error_)]_vars

C3_Witness ==
  pc = "idle" /\ outcome = "nullSource" /\ error_ = RecognizeFailed

\* C4: when prepareImage scales, the scaled buffer fits the available memory
\* getScale observed
C4_ScaledBufferFitsMemory ==
  (pass.called /\ pass.tried) => ScaledFits(pass.source, pass.scale, pass.mem)

\* C5: the engine is valid after construction exactly when init succeeded,
\* never changes after construction, and an invalid engine is never invoked
C5_LifecycleMonotonic ==
  /\ [][pc # "new" => engine_' = engine_]_vars
  /\ [](pc # "new" => (isValid <=> constructed = "inited"))
  /\ [](~isValid => (pc \in {"new", "idle"} /\ ops = <<>>
                     /\ engineImage = NullId))

C5_Witness ==
  \/ constructed = "inited" /\ isValid /\ outcome = "recognized"
  \/ constructed = "initFailed" /\ ~isValid /\ outcome = "noEngine"

\* C6 (as stated): two passes over the same image return buffers of the same
\* width, height and depth, whatever the probe returned
C6_SameImageSameGeometry ==
  (Returned(prev) /\ Returned(pass) /\ prev.image = pass.image) =>
    (/\ prev.geom.w = pass.geom.w
     /\ prev.geom.h = pass.geom.h
     /\ prev.geom.d = pass.geom.d)

\* C6 (amended): two passes over the same image return buffers of the same
\* depth, and of the same width and height when the density of the image is
\* unknown or at least 500, whatever the probe returned
C6_SameDepthAndUnscaledGeometry ==
  (Returned(prev) /\ Returned(pass) /\ prev.image = pass.image) =>
    (/\ prev.geom.d = pass.geom.d
     /\ NoScalingDensity(pass.image) =>
          (prev.geom.w = pass.geom.w /\ prev.geom.h = pass.geom.h))

C6_Witness ==
  /\ Returned(prev) /\ Returned(pass) /\ prev.image = pass.image
  /\ NoScalingDensity(pass.image)
  /\ prev.mem # pass.mem
  /\ pass.mem > 1

\* C7: getScale returns -1.0, and prepareImage does not scale, when the buffer
\* is null, the density is unknown or at least 500, or 0.95 times the probe
\* value is below 1
C7_SentinelCases ==
  (pass.called /\ (\/ pass.source = NullPix
                   \/ NoScalingDensity(pass.source)
                   \/ pass.mem * 19 < 20)) =>
    (pass.scale = Sentinel /\ ~pass.tried)

C7_Witness ==
  /\ pass.called
  /\ pass.source # NullPix
  /\ ~NoScalingDensity(pass.source)
  /\ pass.mem = 1
  /\ pass.scale = Sentinel

\* C8: prepareImage returns null only when one of the two conversions failed;
\* otherwise it returns a live buffer: the scaled one when the scale was above
\* 1.0 and pixScale succeeded, else the grayscale one; pixScale is called only
\* for a scale above 1.0
C8_ReturnsBestBuffer ==
  /\ outcome = "noImage" => (~Returned(pass) /\ (~pass.conv \/ ~pass.gray))
  /\ Returned(pass) => (pass.conv /\ pass.gray)
  /\ (pass.conv /\ pass.gray) =>
       (/\ Returned(pass)
        /\ pass.called
        /\ pass.tried <=> Less(One, pass.scale)
        /\ pass.scaledOk <=> (pass.tried /\ pass.scaleOk)
        /\ pass.geom = IF pass.scaledOk THEN pixScale(pass.source, pass.scale)
                                        ELSE pass.source
        /\ pass.geom.d = 8)
  /\ pc = "prepared" => (image # NullId /\ image \in live)

C8_Witness ==
  /\ pc = "prepared"
  /\ pass.tried
  /\ ~pass.scaleOk
  /\ pass.geom = pass.source
  /\ image \in live

\* getScale got as far as dividing the available memory by the footprint
FootprintUsed(p) ==
  /\ p.called
  /\ p.source # NullPix
  /\ ~NoScalingDensity(p.source)
  /\ p.mem * 19 >= 20

C10_EngineThenRelease ==
  /\ engineImage # NullId => (engineImage = image /\ engineImage \in live)
  /\ pc = "prepared" => (ops = <<>> /\ image \in live)
  /\ pc = "imageSet" => (ops = <<"SetImage">> /\ engineImage = image)
  /\ pc = "textRead" => ops = <<"SetImage", "GetUTF8Text">>
  /\ pc = "cleared" => (/\ ops = <<"SetImage", "GetUTF8Text", "Clear">>
                        /\ image \in live)
  /\ (pc = "cleaned" \/ outcome = "recognized") =>
       (/\ ops = <<"SetImage", "GetUTF8Text", "Clear", "cleanupImage">>
        /\ image = NullId
        /\ engineImage = NullId
        /\ created \cap live = {})

C10_Witness ==
  /\ pc = "idle"
  /\ outcome = "recognized"
  /\ Returned(prev)
  /\ created # {}

====
